---- MODULE Spec2Model ----
(***************************************************************************)
(* State-machine model of the web front end of the Rubik's cube solver     *)
(* (class RubikCubeSolver and class CubeSolver of src/unnamed/part_001,    *)
(* the script with the 3D playback cube).                                  *)
(*                                                                         *)
(* The operations are the methods the event listeners of                   *)
(* setupEventListeners call, the continuations of the two async methods    *)
(* (scrambleCube, solveCube) and the timer callbacks (the play interval    *)
(* of startPlaying, the timeout chain of autoSolve).  DOM rendering is     *)
(* left out; what an operation shows with showMessage is kept in last.msg. *)
(*                                                                         *)
(* A cube is a function  face -> row -> col -> colour,  as in the source:  *)
(* cube["U"][0][2] is this.cube['U'][0][2].  A move token is the sequence  *)
(* of its characters (<<"R", "'">> is the string R'), so that endsWith,    *)
(* slice and string concatenation are computed and not assumed.            *)
(***************************************************************************)
EXTENDS Integers, Sequences, FiniteSets, TLC

\* ------------------------------------------------------------------ data

\* Object.keys(this.cube): the insertion order of the constructor
FaceKeys == <<"U", "D", "F", "B", "L", "R">>
Faces == {FaceKeys[i] : i \in 1..6}
Idx == 0..2

\* the palette colours, in the order scrambleCube lists them
colors == <<"white", "yellow", "red", "orange", "blue", "green">>
Colors == {colors[i] : i \in 1..6}
Stickers == Colors \cup {"empty"}

\* this.colorMap
colorMap ==
  [color \in Colors |->
     CASE color = "white"  -> "U"
       [] color = "yellow" -> "D"
       [] color = "red"    -> "R"
       [] color = "orange" -> "L"
       [] color = "blue"   -> "F"
       [] color = "green"  -> "B"]

\* Array(3).fill().map(() => Array(3).fill('empty')) for each face
EmptyCube == [f \in Faces |-> [r \in Idx |-> [k \in Idx |-> "empty"]]]

\* ------------------------------------------------------- move engine

\* rotateFaceClockwise with temp[2][0] written to two squares and temp[2][2]
\* to none: a faulty variant
rotateFaceClockwiseDuplicating(c, face) ==
  LET temp == c[face]
  IN  [c EXCEPT ![face][0][0] = temp[2][0],
                ![face][0][1] = temp[1][0],
                ![face][0][2] = temp[0][0],
                ![face][1][0] = temp[2][1],
                ![face][1][1] = temp[1][1],
                ![face][1][2] = temp[0][1],
                ![face][2][0] = temp[2][0],
                ![face][2][1] = temp[1][2],
                ![face][2][2] = temp[0][2]]

\* rotateFaceClockwise with the centre taken into the cycle of the edges: a
\* faulty variant
rotateFaceClockwiseMovingCentre(c, face) ==
  LET temp == c[face]
  IN  [c EXCEPT ![face][0][0] = temp[2][0],
                ![face][0][1] = temp[1][1],
                ![face][0][2] = temp[0][0],
                ![face][1][0] = temp[2][1],
                ![face][1][1] = temp[1][0],
                ![face][1][2] = temp[0][1],
                ![face][2][0] = temp[2][2],
                ![face][2][1] = temp[1][2],
                ![face][2][2] = temp[0][2]]

\* Helper function to rotate a face clockwise (lines 163-174)
rotateFaceClockwise(c, face) ==
  LET temp == c[face]
  IN  [c EXCEPT ![face][0][0] = temp[2][0],
                ![face][0][1] = temp[1][0],
                ![face][0][2] = temp[0][0],
                ![face][1][0] = temp[2][1],
                ![face][1][1] = temp[1][1],
                ![face][1][2] = temp[0][1],
                ![face][2][0] = temp[2][2],
                ![face][2][1] = temp[1][2],
                ![face][2][2] = temp[0][2]]

\* Helper function to rotate a face counter-clockwise (lines 177-188)
rotateFaceCounterClockwise(c, face) ==
  LET temp == c[face]
  IN  [c EXCEPT ![face][0][0] = temp[0][2],
                ![face][0][1] = temp[1][2],
                ![face][0][2] = temp[2][2],
                ![face][1][0] = temp[0][1],
                ![face][1][1] = temp[1][1],
                ![face][1][2] = temp[2][1],
                ![face][2][0] = temp[0][0],
                ![face][2][1] = temp[1][0],
                ![face][2][2] = temp[2][0]]

\* rotateR writing the column of F into the middle column of U: a faulty
\* variant
rotateRMiddleColumn(c) ==
  LET c0 == rotateFaceClockwise(c, "R")
      temp == 0 :> c0["U"][0][2] @@ 1 :> c0["U"][1][2] @@ 2 :> c0["U"][2][2]
      c1 == [c0 EXCEPT !["U"][0][1] = c0["F"][0][2], !["U"][1][1] = c0["F"][1][2], !["U"][2][1] = c0["F"][2][2]]
      c2 == [c1 EXCEPT !["F"][0][2] = c1["D"][0][2], !["F"][1][2] = c1["D"][1][2], !["F"][2][2] = c1["D"][2][2]]
      c3 == [c2 EXCEPT !["D"][0][2] = c2["B"][2][0], !["D"][1][2] = c2["B"][1][0], !["D"][2][2] = c2["B"][0][0]]
      c4 == [c3 EXCEPT !["B"][0][0] = temp[2], !["B"][1][0] = temp[1], !["B"][2][0] = temp[0]]
  IN  c4

\* R move: Right face clockwise (lines 191-212)
rotateR(c) ==
  LET c0 == rotateFaceClockwise(c, "R")
      temp == 0 :> c0["U"][0][2] @@ 1 :> c0["U"][1][2] @@ 2 :> c0["U"][2][2]
      c1 == [c0 EXCEPT !["U"][0][2] = c0["F"][0][2], !["U"][1][2] = c0["F"][1][2], !["U"][2][2] = c0["F"][2][2]]
      c2 == [c1 EXCEPT !["F"][0][2] = c1["D"][0][2], !["F"][1][2] = c1["D"][1][2], !["F"][2][2] = c1["D"][2][2]]
      c3 == [c2 EXCEPT !["D"][0][2] = c2["B"][2][0], !["D"][1][2] = c2["B"][1][0], !["D"][2][2] = c2["B"][0][0]]
      c4 == [c3 EXCEPT !["B"][0][0] = temp[2], !["B"][1][0] = temp[1], !["B"][2][0] = temp[0]]
  IN  c4

\* R' move: Right face counter-clockwise (lines 215-235)
rotateRPrime(c) ==
  LET c0 == rotateFaceCounterClockwise(c, "R")
      temp == 0 :> c0["U"][0][2] @@ 1 :> c0["U"][1][2] @@ 2 :> c0["U"][2][2]
      c1 == [c0 EXCEPT !["U"][0][2] = c0["B"][2][0], !["U"][1][2] = c0["B"][1][0], !["U"][2][2] = c0["B"][0][0]]
      c2 == [c1 EXCEPT !["B"][0][0] = c1["D"][2][2], !["B"][1][0] = c1["D"][1][2], !["B"][2][0] = c1["D"][0][2]]
      c3 == [c2 EXCEPT !["D"][0][2] = c2["F"][0][2], !["D"][1][2] = c2["F"][1][2], !["D"][2][2] = c2["F"][2][2]]
      c4 == [c3 EXCEPT !["F"][0][2] = temp[0], !["F"][1][2] = temp[1], !["F"][2][2] = temp[2]]
  IN  c4

\* L move: Left face clockwise (lines 238-258)
rotateL(c) ==
  LET c0 == rotateFaceClockwise(c, "L")
      temp == 0 :> c0["U"][0][0] @@ 1 :> c0["U"][1][0] @@ 2 :> c0["U"][2][0]
      c1 == [c0 EXCEPT !["U"][0][0] = c0["B"][2][2], !["U"][1][0] = c0["B"][1][2], !["U"][2][0] = c0["B"][0][2]]
      c2 == [c1 EXCEPT !["B"][0][2] = c1["D"][2][0], !["B"][1][2] = c1["D"][1][0], !["B"][2][2] = c1["D"][0][0]]
      c3 == [c2 EXCEPT !["D"][0][0] = c2["F"][0][0], !["D"][1][0] = c2["F"][1][0], !["D"][2][0] = c2["F"][2][0]]
      c4 == [c3 EXCEPT !["F"][0][0] = temp[0], !["F"][1][0] = temp[1], !["F"][2][0] = temp[2]]
  IN  c4

\* L' move: Left face counter-clockwise (lines 261-281)
rotateLPrime(c) ==
  LET c0 == rotateFaceCounterClockwise(c, "L")
      temp == 0 :> c0["U"][0][0] @@ 1 :> c0["U"][1][0] @@ 2 :> c0["U"][2][0]
      c1 == [c0 EXCEPT !["U"][0][0] = c0["F"][0][0], !["U"][1][0] = c0["F"][1][0], !["U"][2][0] = c0["F"][2][0]]
      c2 == [c1 EXCEPT !["F"][0][0] = c1["D"][0][0], !["F"][1][0] = c1["D"][1][0], !["F"][2][0] = c1["D"][2][0]]
      c3 == [c2 EXCEPT !["D"][0][0] = c2["B"][2][2], !["D"][1][0] = c2["B"][1][2], !["D"][2][0] = c2["B"][0][2]]
      c4 == [c3 EXCEPT !["B"][0][2] = temp[2], !["B"][1][2] = temp[1], !["B"][2][2] = temp[0]]
  IN  c4

\* U move: Up face clockwise (lines 284-304)
rotateU(c) ==
  LET c0 == rotateFaceClockwise(c, "U")
      temp == 0 :> c0["F"][0][0] @@ 1 :> c0["F"][0][1] @@ 2 :> c0["F"][0][2]
      c1 == [c0 EXCEPT !["F"][0][0] = c0["R"][0][0], !["F"][0][1] = c0["R"][0][1], !["F"][0][2] = c0["R"][0][2]]
      c2 == [c1 EXCEPT !["R"][0][0] = c1["B"][0][0], !["R"][0][1] = c1["B"][0][1], !["R"][0][2] = c1["B"][0][2]]
      c3 == [c2 EXCEPT !["B"][0][0] = c2["L"][0][0], !["B"][0][1] = c2["L"][0][1], !["B"][0][2] = c2["L"][0][2]]
      c4 == [c3 EXCEPT !["L"][0][0] = temp[0], !["L"][0][1] = temp[1], !["L"][0][2] = temp[2]]
  IN  c4

\* U' move: Up face counter-clockwise (lines 307-327)
rotateUPrime(c) ==
  LET c0 == rotateFaceCounterClockwise(c, "U")
      temp == 0 :> c0["F"][0][0] @@ 1 :> c0["F"][0][1] @@ 2 :> c0["F"][0][2]
      c1 == [c0 EXCEPT !["F"][0][0] = c0["L"][0][0], !["F"][0][1] = c0["L"][0][1], !["F"][0][2] = c0["L"][0][2]]
      c2 == [c1 EXCEPT !["L"][0][0] = c1["B"][0][0], !["L"][0][1] = c1["B"][0][1], !["L"][0][2] = c1["B"][0][2]]
      c3 == [c2 EXCEPT !["B"][0][0] = c2["R"][0][0], !["B"][0][1] = c2["R"][0][1], !["B"][0][2] = c2["R"][0][2]]
      c4 == [c3 EXCEPT !["R"][0][0] = temp[0], !["R"][0][1] = temp[1], !["R"][0][2] = temp[2]]
  IN  c4

\* D move: Down face clockwise (lines 330-350)
rotateD(c) ==
  LET c0 == rotateFaceClockwise(c, "D")
      temp == 0 :> c0["F"][2][0] @@ 1 :> c0["F"][2][1] @@ 2 :> c0["F"][2][2]
      c1 == [c0 EXCEPT !["F"][2][0] = c0["L"][2][0], !["F"][2][1] = c0["L"][2][1], !["F"][2][2] = c0["L"][2][2]]
      c2 == [c1 EXCEPT !["L"][2][0] = c1["B"][2][0], !["L"][2][1] = c1["B"][2][1], !["L"][2][2] = c1["B"][2][2]]
      c3 == [c2 EXCEPT !["B"][2][0] = c2["R"][2][0], !["B"][2][1] = c2["R"][2][1], !["B"][2][2] = c2["R"][2][2]]
      c4 == [c3 EXCEPT !["R"][2][0] = temp[0], !["R"][2][1] = temp[1], !["R"][2][2] = temp[2]]
  IN  c4

\* D' move: Down face counter-clockwise (lines 353-373)
rotateDPrime(c) ==
  LET c0 == rotateFaceCounterClockwise(c, "D")
      temp == 0 :> c0["F"][2][0] @@ 1 :> c0["F"][2][1] @@ 2 :> c0["F"][2][2]
      c1 == [c0 EXCEPT !["F"][2][0] = c0["R"][2][0], !["F"][2][1] = c0["R"][2][1], !["F"][2][2] = c0["R"][2][2]]
      c2 == [c1 EXCEPT !["R"][2][0] = c1["B"][2][0], !["R"][2][1] = c1["B"][2][1], !["R"][2][2] = c1["B"][2][2]]
      c3 == [c2 EXCEPT !["B"][2][0] = c2["L"][2][0], !["B"][2][1] = c2["L"][2][1], !["B"][2][2] = c2["L"][2][2]]
      c4 == [c3 EXCEPT !["L"][2][0] = temp[0], !["L"][2][1] = temp[1], !["L"][2][2] = temp[2]]
  IN  c4

\* F move: Front face clockwise (lines 376-396)
rotateF(c) ==
  LET c0 == rotateFaceClockwise(c, "F")
      temp == 0 :> c0["U"][2][0] @@ 1 :> c0["U"][2][1] @@ 2 :> c0["U"][2][2]
      c1 == [c0 EXCEPT !["U"][2][0] = c0["L"][2][2], !["U"][2][1] = c0["L"][1][2], !["U"][2][2] = c0["L"][0][2]]
      c2 == [c1 EXCEPT !["L"][0][2] = c1["D"][0][0], !["L"][1][2] = c1["D"][0][1], !["L"][2][2] = c1["D"][0][2]]
      c3 == [c2 EXCEPT !["D"][0][0] = c2["R"][2][0], !["D"][0][1] = c2["R"][1][0], !["D"][0][2] = c2["R"][0][0]]
      c4 == [c3 EXCEPT !["R"][0][0] = temp[0], !["R"][1][0] = temp[1], !["R"][2][0] = temp[2]]
  IN  c4

\* F' move: Front face counter-clockwise (lines 399-419)
rotateFPrime(c) ==
  LET c0 == rotateFaceCounterClockwise(c, "F")
      temp == 0 :> c0["U"][2][0] @@ 1 :> c0["U"][2][1] @@ 2 :> c0["U"][2][2]
      c1 == [c0 EXCEPT !["U"][2][0] = c0["R"][0][0], !["U"][2][1] = c0["R"][1][0], !["U"][2][2] = c0["R"][2][0]]
      c2 == [c1 EXCEPT !["R"][0][0] = c1["D"][0][2], !["R"][1][0] = c1["D"][0][1], !["R"][2][0] = c1["D"][0][0]]
      c3 == [c2 EXCEPT !["D"][0][0] = c2["L"][0][2], !["D"][0][1] = c2["L"][1][2], !["D"][0][2] = c2["L"][2][2]]
      c4 == [c3 EXCEPT !["L"][0][2] = temp[2], !["L"][1][2] = temp[1], !["L"][2][2] = temp[0]]
  IN  c4

\* B move: Back face clockwise (lines 422-442)
rotateB(c) ==
  LET c0 == rotateFaceClockwise(c, "B")
      temp == 0 :> c0["U"][0][0] @@ 1 :> c0["U"][0][1] @@ 2 :> c0["U"][0][2]
      c1 == [c0 EXCEPT !["U"][0][0] = c0["R"][0][2], !["U"][0][1] = c0["R"][1][2], !["U"][0][2] = c0["R"][2][2]]
      c2 == [c1 EXCEPT !["R"][0][2] = c1["D"][2][2], !["R"][1][2] = c1["D"][2][1], !["R"][2][2] = c1["D"][2][0]]
      c3 == [c2 EXCEPT !["D"][2][0] = c2["L"][0][0], !["D"][2][1] = c2["L"][1][0], !["D"][2][2] = c2["L"][2][0]]
      c4 == [c3 EXCEPT !["L"][0][0] = temp[2], !["L"][1][0] = temp[1], !["L"][2][0] = temp[0]]
  IN  c4

\* B' move: Back face counter-clockwise (lines 445-465)
rotateBPrime(c) ==
  LET c0 == rotateFaceCounterClockwise(c, "B")
      temp == 0 :> c0["U"][0][0] @@ 1 :> c0["U"][0][1] @@ 2 :> c0["U"][0][2]
      c1 == [c0 EXCEPT !["U"][0][0] = c0["L"][2][0], !["U"][0][1] = c0["L"][1][0], !["U"][0][2] = c0["L"][0][0]]
      c2 == [c1 EXCEPT !["L"][0][0] = c1["D"][2][2], !["L"][1][0] = c1["D"][2][1], !["L"][2][0] = c1["D"][2][0]]
      c3 == [c2 EXCEPT !["D"][2][0] = c2["R"][2][2], !["D"][2][1] = c2["R"][1][2], !["D"][2][2] = c2["R"][0][2]]
      c4 == [c3 EXCEPT !["R"][0][2] = temp[0], !["R"][1][2] = temp[1], !["R"][2][2] = temp[2]]
  IN  c4

\* The tokens of the switch in performCubeMove
FaceLetters == <<"R", "L", "U", "D", "F", "B">>
Modifiers == << <<>>, <<"'">>, <<"2">> >>
Moves == {<<FaceLetters[i]>> \o Modifiers[j] : i \in 1..6, j \in 1..3}

\* performCubeMove(move): the switch; a token with no case changes nothing
performCubeMove(c, move) ==
  CASE move = <<"R">>      -> rotateR(c)
    [] move = <<"R", "'">> -> rotateRPrime(c)
    [] move = <<"R", "2">> -> rotateR(rotateR(c))
    [] move = <<"L">>      -> rotateL(c)
    [] move = <<"L", "'">> -> rotateLPrime(c)
    [] move = <<"L", "2">> -> rotateL(rotateL(c))
    [] move = <<"U">>      -> rotateU(c)
    [] move = <<"U", "'">> -> rotateUPrime(c)
    [] move = <<"U", "2">> -> rotateU(rotateU(c))
    [] move = <<"D">>      -> rotateD(c)
    [] move = <<"D", "'">> -> rotateDPrime(c)
    [] move = <<"D", "2">> -> rotateD(rotateD(c))
    [] move = <<"F">>      -> rotateF(c)
    [] move = <<"F", "'">> -> rotateFPrime(c)
    [] move = <<"F", "2">> -> rotateF(rotateF(c))
    [] move = <<"B">>      -> rotateB(c)
    [] move = <<"B", "'">> -> rotateBPrime(c)
    [] move = <<"B", "2">> -> rotateB(rotateB(c))
    [] OTHER               -> c

\* str.endsWith(ch) for a one-character ch
endsWith(str, ch) == Len(str) > 0 /\ str[Len(str)] = ch

\* invertMove without the branch for a token ending in 2: a faulty variant
invertMoveNoHalfTurn(move) ==
  IF endsWith(move, "'") THEN SubSeq(move, 1, Len(move) - 1)
  ELSE move \o <<"'">>

\* CubeSolver.invertMove
invertMove(move) ==
  IF endsWith(move, "'") THEN SubSeq(move, 1, Len(move) - 1)
  ELSE IF endsWith(move, "2") THEN move
  ELSE move \o <<"'">>

\* -------------------------------------------------- validation, encoder

\* The 54 stickers in the order of the forEach loops over Object.values
\* (faces in key order, rows, then columns), numbered from 1
Flat(c, faceSeq) ==
  [i \in 1..54 |-> c[faceSeq[((i - 1) \div 9) + 1]][((i - 1) % 9) \div 3][(i - 1) % 3]]

\* isValidCube with the test of totalSquares only: a faulty variant
isValidCubeTotalOnly(c) ==
  LET flat == Flat(c, FaceKeys)
      totalSquares == Cardinality({i \in 1..54 : flat[i] # "empty"})
  IN  IF totalSquares # 54
      THEN [valid |-> FALSE, kind |-> "incomplete", color |-> "", count |-> totalSquares]
      ELSE [valid |-> TRUE, kind |-> "ok", color |-> "", count |-> 0]

\* isValidCube with the loop over colorCounts run before the test of
\* totalSquares: a faulty variant
isValidCubeCountsFirst(c) ==
  LET flat == Flat(c, FaceKeys)
      present == {flat[i] : i \in 1..54} \ {"empty"}
      colorCounts(color) == Cardinality({i \in 1..54 : flat[i] = color})
      totalSquares == Cardinality({i \in 1..54 : flat[i] # "empty"})
      firstMet(color) == CHOOSE i \in 1..54 :
                           flat[i] = color /\ \A j \in 1..(i - 1) : flat[j] # color
      bad == {color \in present : colorCounts(color) # 9}
      firstBad == CHOOSE color \in bad : \A o \in bad : firstMet(color) <= firstMet(o)
  IN  IF bad # {}
      THEN [valid |-> FALSE, kind |-> "count", color |-> firstBad,
            count |-> colorCounts(firstBad)]
      ELSE IF totalSquares # 54
      THEN [valid |-> FALSE, kind |-> "incomplete", color |-> "", count |-> totalSquares]
      ELSE IF Cardinality(present) # 6
      THEN [valid |-> FALSE, kind |-> "variety", color |-> "",
            count |-> Cardinality(present)]
      ELSE [valid |-> TRUE, kind |-> "ok", color |-> "", count |-> 0]

\* isValidCube with the test of the number of colours run before the loop
\* over colorCounts: a faulty variant
isValidCubeVarietyFirst(c) ==
  LET flat == Flat(c, FaceKeys)
      present == {flat[i] : i \in 1..54} \ {"empty"}
      colorCounts(color) == Cardinality({i \in 1..54 : flat[i] = color})
      totalSquares == Cardinality({i \in 1..54 : flat[i] # "empty"})
      firstMet(color) == CHOOSE i \in 1..54 :
                           flat[i] = color /\ \A j \in 1..(i - 1) : flat[j] # color
      bad == {color \in present : colorCounts(color) # 9}
      firstBad == CHOOSE color \in bad : \A o \in bad : firstMet(color) <= firstMet(o)
  IN  IF totalSquares # 54
      THEN [valid |-> FALSE, kind |-> "incomplete", color |-> "", count |-> totalSquares]
      ELSE IF Cardinality(present) # 6
      THEN [valid |-> FALSE, kind |-> "variety", color |-> "",
            count |-> Cardinality(present)]
      ELSE IF bad # {}
      THEN [valid |-> FALSE, kind |-> "count", color |-> firstBad,
            count |-> colorCounts(firstBad)]
      ELSE [valid |-> TRUE, kind |-> "ok", color |-> "", count |-> 0]

\* isValidCube: colorCounts has one key per colour present, in the order
\* the colours are first met; the for-of loop reports the first bad one
isValidCube(c) ==
  LET flat == Flat(c, FaceKeys)
      present == {flat[i] : i \in 1..54} \ {"empty"}
      colorCounts(color) == Cardinality({i \in 1..54 : flat[i] = color})
      totalSquares == Cardinality({i \in 1..54 : flat[i] # "empty"})
      firstMet(color) == CHOOSE i \in 1..54 :
                           flat[i] = color /\ \A j \in 1..(i - 1) : flat[j] # color
      bad == {color \in present : colorCounts(color) # 9}
      firstBad == CHOOSE color \in bad : \A o \in bad : firstMet(color) <= firstMet(o)
  IN  IF totalSquares # 54
      THEN [valid |-> FALSE, kind |-> "incomplete", color |-> "", count |-> totalSquares]
      ELSE IF bad # {}
      THEN [valid |-> FALSE, kind |-> "count", color |-> firstBad,
            count |-> colorCounts(firstBad)]
      ELSE IF Cardinality(present) # 6
      THEN [valid |-> FALSE, kind |-> "variety", color |-> "",
            count |-> Cardinality(present)]
      ELSE [valid |-> TRUE, kind |-> "ok", color |-> "", count |-> 0]

\* Face order for Kociemba: U, R, F, D, L, B
faceOrder == <<"U", "R", "F", "D", "L", "B">>

\* toKociembaString reading the faces in the order of Object.keys(this.cube)
\* and not in faceOrder: a faulty variant
toKociembaStringKeyOrder(c) ==
  LET flat == Flat(c, FaceKeys)
      unmapped == {i \in 1..54 : flat[i] \notin DOMAIN colorMap}
  IN  IF unmapped = {}
      THEN [ok |-> TRUE, str |-> [i \in 1..54 |-> colorMap[flat[i]]]]
      ELSE [ok |-> FALSE,
            str |-> <<flat[CHOOSE i \in unmapped : \A j \in unmapped : i <= j]>>]

\* toKociembaString leaving out the stickers whose colour is no key of
\* colorMap and returning the letters of the others: a faulty variant
toKociembaStringSkipping(c) ==
  LET flat == Flat(c, faceOrder)
      mapped == SelectSeq(flat, LAMBDA color : color \in DOMAIN colorMap)
  IN  [ok |-> TRUE, str |-> [i \in 1..Len(mapped) |-> colorMap[mapped[i]]]]

\* toKociembaString: the 54 letters, or the throw on the first sticker whose
\* colour is no key of colorMap
toKociembaString(c) ==
  LET flat == Flat(c, faceOrder)
      unmapped == {i \in 1..54 : flat[i] \notin DOMAIN colorMap}
  IN  IF unmapped = {}
      THEN [ok |-> TRUE, str |-> [i \in 1..54 |-> colorMap[flat[i]]]]
      ELSE [ok |-> FALSE,
            str |-> <<flat[CHOOSE i \in unmapped : \A j \in unmapped : i <= j]>>]

\* ------------------------------------------------------------ inputs

\* The shuffle of scrambleCube: assignments is 9 of each colour in the order
\* of colors; a Fisher-Yates outcome is a permutation of its 54 indices.
assignments == [i \in 0..53 |-> colors[(i \div 9) + 1]]

\* Outcomes of the shuffle taken here: every j = i (nothing moves), and the one
\* that gives each face the colour colorMap assigns to it.
ShuffleOutcomes ==
  { [i \in 0..53 |-> i],
    [i \in 0..53 |-> 9 * (<<0, 1, 4, 5, 3, 2>>[(i \div 9) + 1]) + (i % 9)] }

\* Squares the user clicks and palette buttons the user picks
ClickedSquares == { <<"U", 0, 0>> }
PickedColors == {"white", "red"}

\* Move lists the external solver answers with (data.solution)
SolverSolutions ==
  { <<>>,
    << <<"R">>, <<"U">>, <<"R", "'">> >> }

\* The 16 tokens the fallback of generateSolution draws from
mockMoves ==
  << <<"R">>, <<"U">>, <<"R", "'">>, <<"U", "'">>, <<"F">>, <<"R">>, <<"F", "'">>,
     <<"U", "2">>, <<"R", "'">>, <<"U", "'">>, <<"R">>, <<"U">>, <<"R", "'">>,
     <<"F", "'">>, <<"U">>, <<"F">> >>

\* Outcomes of the random draws of the fallback taken here: randomLength 8
\* with the indices 0,1,2,3,0,1,2,3
MockDraws == { <<0, 1, 2, 3, 0, 1, 2, 3>> }

\* In-flight bounds
MaxScrambleRequests == 1
MaxAutoTimeouts == 1

\* How often the cursor may be moved back (previousStep, play restarting at
\* the end) before the playback cube is next copied from the editor cube
MaxRewinds == 1

\* ------------------------------------------------------------- state

VARIABLES
  cube,             \* this.cube, the editor cube
  cube3D,           \* this.cube3D, the playback cube
  selectedColor,    \* this.selectedColor
  solutionSteps,    \* this.solutionSteps
  currentStep,      \* this.currentStep, the cursor
  isPlaying,        \* this.isPlaying
  playInterval,     \* this.playInterval: a timer id, or NoTimer for null
  intervals,        \* the interval timers setInterval made and nobody cleared
  autoTimeouts,     \* pending setTimeout(executeNext, 400) callbacks
  solveRequests,    \* solve requests sent and not answered yet
  scrambleRequests, \* scrambleCube calls waiting for the /api/scramble fetch
  solveBtnDisabled, \* solveBtn.disabled
  disabled,         \* .disabled of the buttons prev-step, next-step, play-pause
                    \*   and auto-solve
  snapshot,         \* history: the editor cube when the solution was last
                    \*   loaded or cleared
  paused,           \* history: pause was the last of pause / play / auto-solve
  rewinds,          \* history: moves of the cursor back since the playback cube
                    \*   was last copied from the editor cube
  last              \* history: the last operation, its argument and the
                    \*   message it showed

vars == <<cube, cube3D, selectedColor, solutionSteps, currentStep, isPlaying,
          playInterval, intervals, autoTimeouts, solveRequests,
          scrambleRequests, solveBtnDisabled, disabled, snapshot, paused, rewinds,
          last>>

NoTimer == 0
NoMsg == [type |-> "none", text |-> "none"]

Op(op, arg, msg) == [op |-> op, arg |-> arg, msg |-> msg]

\* constructor; the page, which is not part of the sources, decides which of
\* the four player buttons start disabled
Init ==
  /\ cube = EmptyCube
  /\ cube3D = EmptyCube
  /\ selectedColor = "white"
  /\ solutionSteps = <<>>
  /\ currentStep = 0
  /\ isPlaying = FALSE
  /\ playInterval = NoTimer
  /\ intervals = {}
  /\ autoTimeouts = 0
  /\ solveRequests = <<>>
  /\ scrambleRequests = 0
  /\ solveBtnDisabled = FALSE
  /\ disabled \in [{"prev", "next", "play", "auto"} -> BOOLEAN]
  /\ snapshot = EmptyCube
  /\ paused = FALSE
  /\ rewinds = 0
  /\ last = Op("constructor", <<>>, NoMsg)

\* ----------------------------------------------------- shared pieces

\* stopPlaying with the isPlaying flag left set: a faulty variant
stopPlayingKeepsFlag ==
  /\ UNCHANGED isPlaying
  /\ intervals' = IF playInterval # NoTimer THEN intervals \ {playInterval}
                  ELSE intervals
  /\ playInterval' = NoTimer

\* stopPlaying without clearInterval: a faulty variant
stopPlayingKeepsTimer ==
  /\ isPlaying' = FALSE
  /\ UNCHANGED intervals
  /\ playInterval' = NoTimer

\* stopPlaying
stopPlaying ==
  /\ isPlaying' = FALSE
  /\ intervals' = IF playInterval # NoTimer THEN intervals \ {playInterval}
                  ELSE intervals
  /\ playInterval' = NoTimer

\* updateStepDisplay, run after the cursor and the solution are set and with
\* the buttons as d: the three branches set prevBtn and nextBtn, and the
\* branch currentStep === totalSteps (tried after currentStep === 0) stops play
updateStepDisplay(d) ==
  /\ disabled' =
       IF currentStep' = 0
       THEN [d EXCEPT !.prev = TRUE, !.next = (Len(solutionSteps') = 0)]
       ELSE IF currentStep' = Len(solutionSteps')
       THEN [d EXCEPT !.prev = FALSE, !.next = TRUE]
       ELSE [d EXCEPT !.prev = FALSE, !.next = FALSE]
  /\ IF currentStep' # 0 /\ currentStep' = Len(solutionSteps')
     THEN stopPlaying
     ELSE UNCHANGED <<isPlaying, intervals, playInterval>>

\* clearSolution without the call of stopPlaying: a faulty variant
clearSolutionKeepsPlaying ==
  /\ solutionSteps' = <<>>
  /\ currentStep' = 0
  /\ cube3D' = cube'
  /\ snapshot' = cube'
  /\ rewinds' = 0
  /\ UNCHANGED <<isPlaying, intervals, playInterval>>
  /\ disabled' = [prev |-> TRUE, next |-> TRUE, play |-> TRUE, auto |-> TRUE]

\* clearSolution, run after the editor cube is set
clearSolution ==
  /\ solutionSteps' = <<>>
  /\ currentStep' = 0
  /\ cube3D' = cube'
  /\ snapshot' = cube'
  /\ rewinds' = 0
  /\ stopPlaying
  /\ disabled' = [prev |-> TRUE, next |-> TRUE, play |-> TRUE, auto |-> TRUE]

\* history: every solve request in flight has seen an edit
markEdited ==
  solveRequests' = [i \in DOMAIN solveRequests |->
                      [solveRequests[i] EXCEPT !.edited = TRUE]]

\* the loop of goToStep: the first n moves of steps applied in order
RECURSIVE applyMoves(_, _, _)
applyMoves(c, steps, n) ==
  IF n <= 0 THEN c
  ELSE performCubeMove(applyMoves(c, steps, n - 1), steps[n])

\* nextStep as in script.js, which only advances the cursor: a faulty variant
nextStepNoMove ==
  IF currentStep < Len(solutionSteps)
  THEN /\ currentStep' = currentStep + 1
       /\ UNCHANGED <<cube3D, solutionSteps>>
       /\ updateStepDisplay(disabled)
  ELSE UNCHANGED <<cube3D, currentStep, solutionSteps, isPlaying, intervals,
                   playInterval, disabled>>

\* nextStep giving up, cursor unmoved, on a token performCubeMove has no
\* case for: a faulty variant
nextStepSkippingUnknown ==
  IF currentStep < Len(solutionSteps) /\ solutionSteps[currentStep + 1] \in Moves
  THEN /\ cube3D' = performCubeMove(cube3D, solutionSteps[currentStep + 1])
       /\ currentStep' = currentStep + 1
       /\ UNCHANGED solutionSteps
       /\ updateStepDisplay(disabled)
  ELSE UNCHANGED <<cube3D, currentStep, solutionSteps, isPlaying, intervals,
                   playInterval, disabled>>

\* the body of nextStep
nextStep ==
  IF currentStep < Len(solutionSteps)
  THEN /\ cube3D' = performCubeMove(cube3D, solutionSteps[currentStep + 1])
       /\ currentStep' = currentStep + 1
       /\ UNCHANGED solutionSteps
       /\ updateStepDisplay(disabled)
  ELSE UNCHANGED <<cube3D, currentStep, solutionSteps, isPlaying, intervals,
                   playInterval, disabled>>

\* startPlaying
startPlaying ==
  LET id == CHOOSE n \in 1..(Cardinality(intervals) + 1) :
              /\ n \notin intervals
              /\ \A k \in 1..(n - 1) : k \in intervals
  IN  /\ currentStep' = IF currentStep >= Len(solutionSteps) THEN 0 ELSE currentStep
      /\ IF currentStep' # currentStep
         THEN rewinds < MaxRewinds /\ rewinds' = rewinds + 1
         ELSE UNCHANGED rewinds
      /\ isPlaying' = TRUE
      /\ playInterval' = id
      /\ intervals' = intervals \cup {id}

\* generateSolution once the fetch has settled: data.solution on success,
\* else the catch block's list of randomLength tokens drawn from mockMoves
generateSolution(request, response, draw) ==
  IF request.cube.ok /\ response.kind = "success"
  THEN response.solution
  ELSE [i \in 1..Len(draw) |-> mockMoves[draw[i] + 1]]

\* What the solve fetch can settle with: success with a move list,
\* success = false, or a rejected fetch
Responses ==
  {[kind |-> "success", solution |-> s] : s \in SolverSolutions}
    \cup {[kind |-> k, solution |-> <<>>] : k \in {"failure", "unreachable"}}

\* ------------------------------------------------------ the editor

SelectColor(color) ==
  /\ selectedColor' = color
  /\ last' = Op("selectColor", color, NoMsg)
  /\ UNCHANGED <<cube, cube3D, solutionSteps, currentStep, isPlaying, playInterval,
                 intervals, autoTimeouts, solveRequests, scrambleRequests,
                 solveBtnDisabled, snapshot, paused, rewinds, disabled>>

\* colorSquare painting the whole row of the square: a faulty variant
ColorSquarePaintsRow(face, row, col) ==
  /\ cube' = [cube EXCEPT ![face][row] = [k \in DOMAIN @ |-> selectedColor]]
  /\ clearSolution
  /\ markEdited
  /\ last' = Op("colorSquare", <<face, row, col>>, NoMsg)
  /\ UNCHANGED <<selectedColor, autoTimeouts, scrambleRequests, solveBtnDisabled,
                 paused>>

\* colorSquare(face, row, col).  With no this.cube[face][row] the write of
\* line 480 throws a TypeError.  With a row but a col the grid has no square
\* for, the write adds the element to the row array, querySelector returns
\* null and line 484 throws, before copyTo3DCube and clearSolution.
ColorSquare(face, row, col) ==
  IF face \notin DOMAIN cube \/ row \notin DOMAIN cube[face]
  THEN /\ last' = Op("colorSquare", <<face, row, col>>,
                     [type |-> "throw", text |-> "TypeError"])
       /\ UNCHANGED <<cube, cube3D, selectedColor, solutionSteps, currentStep,
                      isPlaying, playInterval, intervals, autoTimeouts,
                      solveRequests, scrambleRequests, solveBtnDisabled, snapshot,
                      paused, rewinds, disabled>>
  ELSE IF col \notin Idx
  THEN /\ cube' = [cube EXCEPT ![face][row] = (col :> selectedColor) @@ @]
       /\ markEdited
       /\ last' = Op("colorSquare", <<face, row, col>>,
                     [type |-> "throw", text |-> "TypeError"])
       /\ UNCHANGED <<cube3D, selectedColor, solutionSteps, currentStep,
                      isPlaying, playInterval, intervals, autoTimeouts,
                      scrambleRequests, solveBtnDisabled, snapshot, paused,
                      rewinds, disabled>>
  ELSE /\ cube' = [cube EXCEPT ![face][row][col] = selectedColor]
       /\ clearSolution
       /\ markEdited
       /\ last' = Op("colorSquare", <<face, row, col>>, NoMsg)
       /\ UNCHANGED <<selectedColor, autoTimeouts, scrambleRequests,
                      solveBtnDisabled, paused>>

\* resetCube with a clearSolution that does not call copyTo3DCube: a faulty
\* variant
ResetCubeKeeps3D ==
  /\ cube' = [f \in Faces |-> [r \in Idx |-> [k \in Idx |-> "empty"]]]
  /\ solutionSteps' = <<>>
  /\ currentStep' = 0
  /\ UNCHANGED <<cube3D, snapshot, rewinds>>
  /\ stopPlaying
  /\ disabled' = [prev |-> TRUE, next |-> TRUE, play |-> TRUE, auto |-> TRUE]
  /\ markEdited
  /\ last' = Op("resetCube", <<>>, [type |-> "success", text |-> "Cube reset!"])
  /\ UNCHANGED <<selectedColor, autoTimeouts, scrambleRequests, solveBtnDisabled,
                 paused>>

ResetCube ==
  /\ cube' = [f \in Faces |-> [r \in Idx |-> [k \in Idx |-> "empty"]]]
  /\ clearSolution
  /\ markEdited
  /\ last' = Op("resetCube", <<>>, [type |-> "success", text |-> "Cube reset!"])
  /\ UNCHANGED <<selectedColor, autoTimeouts, scrambleRequests, solveBtnDisabled,
                 paused>>

\* scrambleCube up to its first await
ScrambleCube ==
  /\ scrambleRequests < MaxScrambleRequests
  /\ scrambleRequests' = scrambleRequests + 1
  /\ last' = Op("scrambleCube", <<>>, NoMsg)
  /\ UNCHANGED <<cube, cube3D, selectedColor, solutionSteps, currentStep, isPlaying,
                 playInterval, intervals, autoTimeouts, solveRequests,
                 solveBtnDisabled, snapshot, paused, rewinds, disabled>>

\* scrambleCube with 10 and not 9 entries pushed per colour, of which the
\* first 54 are painted: a faulty variant
ScrambleResumeTenEach(apiOk, shuffle) ==
  /\ scrambleRequests > 0
  /\ scrambleRequests' = scrambleRequests - 1
  /\ cube' = [f \in Faces |-> [r \in Idx |-> [k \in Idx |->
               LET face == CHOOSE n \in 1..6 : FaceKeys[n] = f
                   index == 9 * (face - 1) + 3 * r + k
               IN  colors[(shuffle[index] \div 10) + 1]]]]
  /\ clearSolution
  /\ markEdited
  /\ last' = Op("scrambleResume", apiOk,
                IF apiOk THEN [type |-> "success", text |-> "Scramble"] ELSE NoMsg)
  /\ UNCHANGED <<selectedColor, autoTimeouts, solveBtnDisabled, paused>>

\* scrambleCube after the fetch: apiOk is data.success, shuffle the
\* permutation the Fisher-Yates loop ends with
ScrambleResume(apiOk, shuffle) ==
  /\ scrambleRequests > 0
  /\ scrambleRequests' = scrambleRequests - 1
  /\ cube' = [f \in Faces |-> [r \in Idx |-> [k \in Idx |->
               LET face == CHOOSE n \in 1..6 : FaceKeys[n] = f
                   index == 9 * (face - 1) + 3 * r + k
               IN  assignments[shuffle[index]]]]]
  /\ clearSolution
  /\ markEdited
  /\ last' = Op("scrambleResume", apiOk,
                IF apiOk THEN [type |-> "success", text |-> "Scramble"] ELSE NoMsg)
  /\ UNCHANGED <<selectedColor, autoTimeouts, solveBtnDisabled, paused>>

\* ------------------------------------------------------- the solver

\* solveCube without the early return on a failed validation: a faulty variant
SolveCubeNoValidation ==
  /\ ~solveBtnDisabled
  /\ solveBtnDisabled' = TRUE
  /\ solveRequests' = Append(solveRequests,
                             [cube |-> toKociembaString(cube), edited |-> FALSE])
  /\ last' = Op("solveCube", <<>>, NoMsg)
  /\ UNCHANGED <<cube, cube3D, selectedColor, solutionSteps, currentStep,
                 isPlaying, playInterval, intervals, autoTimeouts,
                 scrambleRequests, snapshot, paused, rewinds, disabled>>

\* solveCube leaving solve-btn enabled while the fetch is awaited: a faulty
\* variant
SolveCubeButtonEnabled ==
  LET validation == isValidCube(cube)
  IN  \/ /\ ~solveBtnDisabled
         /\ ~validation.valid
         /\ last' = Op("solveCube", <<>>, [type |-> "error", text |-> validation])
         /\ UNCHANGED <<cube, cube3D, selectedColor, solutionSteps, currentStep,
                        isPlaying, playInterval, intervals, autoTimeouts,
                        solveRequests, scrambleRequests, solveBtnDisabled,
                        snapshot, paused, rewinds, disabled>>
      \/ /\ ~solveBtnDisabled
         /\ validation.valid
         /\ solveRequests' = Append(solveRequests,
                                    [cube |-> toKociembaString(cube), edited |-> FALSE])
         /\ last' = Op("solveCube", <<>>, NoMsg)
         /\ UNCHANGED <<cube, cube3D, selectedColor, solutionSteps, currentStep,
                        isPlaying, playInterval, intervals, autoTimeouts,
                        scrambleRequests, solveBtnDisabled, snapshot, paused,
                        rewinds, disabled>>

\* solveCube up to the await of the fetch; a disabled button takes no click
SolveCube ==
  LET validation == isValidCube(cube)
  IN  \/ /\ ~solveBtnDisabled
         /\ ~validation.valid
         /\ last' = Op("solveCube", <<>>, [type |-> "error", text |-> validation])
         /\ UNCHANGED <<cube, cube3D, selectedColor, solutionSteps, currentStep,
                        isPlaying, playInterval, intervals, autoTimeouts,
                        solveRequests, scrambleRequests, solveBtnDisabled,
                        snapshot, paused, rewinds, disabled>>
      \/ /\ ~solveBtnDisabled
         /\ validation.valid
         /\ solveBtnDisabled' = TRUE
         /\ solveRequests' = Append(solveRequests,
                                    [cube |-> toKociembaString(cube), edited |-> FALSE])
         /\ last' = Op("solveCube", <<>>, NoMsg)
         /\ UNCHANGED <<cube, cube3D, selectedColor, solutionSteps, currentStep,
                        isPlaying, playInterval, intervals, autoTimeouts,
                        scrambleRequests, snapshot, paused, rewinds, disabled>>

\* displaySolution(solution)
displaySolution(solution) ==
  /\ solutionSteps' = solution
  /\ currentStep' = 0
  /\ cube3D' = cube
  /\ snapshot' = cube
  /\ rewinds' = 0
  /\ IF Len(solution) > 0
     THEN updateStepDisplay([disabled EXCEPT !.next = FALSE, !.play = FALSE,
                                             !.auto = FALSE])
     ELSE UNCHANGED <<isPlaying, intervals, playInterval, disabled>>

\* solveCube after the await: request i settles with response; a list is
\* always truthy, so the solution generateSolution returns is displayed
SolveResponse(i, response, draw) ==
  /\ i \in DOMAIN solveRequests
  /\ LET request == solveRequests[i]
         solution == generateSolution(request, response, draw)
     IN  /\ displaySolution(solution)
         /\ last' = Op("solveResponse",
                       [response |-> response.kind, edited |-> request.edited,
                        solution |-> solution],
                       [type |-> "success", text |-> "Solution found"])
  /\ solveRequests' = SubSeq(solveRequests, 1, i - 1)
                        \o SubSeq(solveRequests, i + 1, Len(solveRequests))
  /\ solveBtnDisabled' = FALSE
  /\ UNCHANGED <<cube, selectedColor, autoTimeouts, scrambleRequests, paused>>

\* ------------------------------------------------------- the player

\* goToStep without the copy of the editor cube: a faulty variant
GoToStepNoReset(stepNumber) ==
  /\ IF stepNumber >= 0 /\ stepNumber <= Len(solutionSteps)
     THEN /\ cube3D' = applyMoves(cube3D, solutionSteps, stepNumber)
          /\ currentStep' = stepNumber
          /\ rewinds' = 0
          /\ UNCHANGED solutionSteps
          /\ updateStepDisplay(disabled)
     ELSE UNCHANGED <<cube3D, currentStep, solutionSteps, isPlaying, intervals,
                      playInterval, rewinds, disabled>>
  /\ last' = Op("goToStep", stepNumber, NoMsg)
  /\ UNCHANGED <<cube, selectedColor, autoTimeouts, solveRequests, scrambleRequests,
                 solveBtnDisabled, snapshot, paused>>

GoToStep(stepNumber) ==
  /\ IF stepNumber >= 0 /\ stepNumber <= Len(solutionSteps)
     THEN /\ cube3D' = applyMoves(cube, solutionSteps, stepNumber)
          /\ currentStep' = stepNumber
          /\ rewinds' = 0
          /\ UNCHANGED solutionSteps
          /\ updateStepDisplay(disabled)
     ELSE UNCHANGED <<cube3D, currentStep, solutionSteps, isPlaying, intervals,
                      playInterval, rewinds, disabled>>
  /\ last' = Op("goToStep", stepNumber, NoMsg)
  /\ UNCHANGED <<cube, selectedColor, autoTimeouts, solveRequests, scrambleRequests,
                 solveBtnDisabled, snapshot, paused>>

\* previousStep without the test currentStep > 0: a faulty variant
PreviousStepNoGuard ==
  /\ ~disabled.prev
  /\ rewinds < MaxRewinds
  /\ rewinds' = rewinds + 1
  /\ currentStep' = currentStep - 1
  /\ UNCHANGED <<cube3D, solutionSteps>>
  /\ updateStepDisplay(disabled)
  /\ last' = Op("previousStep", currentStep > 0, NoMsg)
  /\ UNCHANGED <<cube, selectedColor, autoTimeouts, solveRequests, scrambleRequests,
                 solveBtnDisabled, snapshot, paused>>

\* The four player buttons take a click only while enabled
PreviousStep ==
  /\ ~disabled.prev
  /\ IF currentStep > 0
     THEN /\ rewinds < MaxRewinds
          /\ rewinds' = rewinds + 1
          /\ currentStep' = currentStep - 1
          /\ UNCHANGED <<cube3D, solutionSteps>>
          /\ updateStepDisplay(disabled)
     ELSE UNCHANGED <<cube3D, currentStep, solutionSteps, isPlaying, intervals,
                      playInterval, rewinds, disabled>>
  /\ last' = Op("previousStep", currentStep > 0, NoMsg)
  /\ UNCHANGED <<cube, selectedColor, autoTimeouts, solveRequests, scrambleRequests,
                 solveBtnDisabled, snapshot, paused>>

\* The next-step button with this.cube3D the same object as this.cube (no
\* JSON copy in copyTo3DCube), so that a move writes both: a faulty variant
NextStepAliased ==
  /\ ~disabled.next
  /\ nextStep
  /\ cube' = cube3D'
  /\ UNCHANGED rewinds
  /\ last' = Op("nextStep",
                [moved |-> currentStep < Len(solutionSteps),
                 run |-> IF currentStep >= Len(solutionSteps) THEN 0
                         ELSE IF last.op = "solveResponse" THEN 1
                         ELSE IF last.op = "nextStep" /\ last.arg.run > 0
                         THEN last.arg.run + 1
                         ELSE 0],
                NoMsg)
  /\ UNCHANGED <<selectedColor, autoTimeouts, solveRequests, scrambleRequests,
                 solveBtnDisabled, snapshot, paused>>

\* last.arg.run counts the forward steps in a row that moved the cursor, the
\* first of them right after a load (0 when the run is not of that kind)
NextStep ==
  /\ ~disabled.next
  /\ nextStep
  /\ UNCHANGED rewinds
  /\ last' = Op("nextStep",
                [moved |-> currentStep < Len(solutionSteps),
                 run |-> IF currentStep >= Len(solutionSteps) THEN 0
                         ELSE IF last.op = "solveResponse" THEN 1
                         ELSE IF last.op = "nextStep" /\ last.arg.run > 0
                         THEN last.arg.run + 1
                         ELSE 0],
                NoMsg)
  /\ UNCHANGED <<cube, selectedColor, autoTimeouts, solveRequests, scrambleRequests,
                 solveBtnDisabled, snapshot, paused>>

TogglePlayPause ==
  /\ ~disabled.play
  /\ IF isPlaying
     THEN /\ stopPlaying
          /\ paused' = TRUE
          /\ UNCHANGED <<currentStep, rewinds>>
     ELSE /\ startPlaying
          /\ paused' = FALSE
  /\ last' = Op("togglePlayPause", isPlaying, NoMsg)
  /\ UNCHANGED <<cube, cube3D, selectedColor, solutionSteps, autoTimeouts,
                 solveRequests, scrambleRequests, solveBtnDisabled, snapshot,
                 disabled>>

\* the callback of the setInterval of startPlaying, for timer id
PlayTick(id) ==
  /\ id \in intervals
  /\ IF currentStep < Len(solutionSteps)
     THEN nextStep
     ELSE /\ stopPlaying
          /\ UNCHANGED <<cube3D, currentStep, solutionSteps, disabled>>
  /\ UNCHANGED rewinds
  /\ last' = Op("playTick", currentStep < Len(solutionSteps), NoMsg)
  /\ UNCHANGED <<cube, selectedColor, autoTimeouts, solveRequests, scrambleRequests,
                 solveBtnDisabled, snapshot, paused>>

\* autoSolve without its call of copyTo3DCube: a faulty variant
AutoSolveNoCopy ==
  /\ ~disabled.auto
  /\ IF 0 < Len(solutionSteps)
     THEN /\ autoTimeouts < MaxAutoTimeouts
          /\ cube3D' = performCubeMove(cube3D, solutionSteps[1])
          /\ currentStep' = 1
          /\ UNCHANGED solutionSteps
          /\ updateStepDisplay(disabled)
          /\ autoTimeouts' = autoTimeouts + 1
     ELSE /\ cube3D' = cube3D
          /\ currentStep' = 0
          /\ UNCHANGED <<solutionSteps, autoTimeouts>>
          /\ updateStepDisplay(disabled)
  /\ rewinds' = 0
  /\ paused' = FALSE
  /\ last' = Op("autoSolve", <<>>, NoMsg)
  /\ UNCHANGED <<cube, selectedColor, solveRequests, scrambleRequests,
                 solveBtnDisabled, snapshot>>

\* autoSolve with its first, synchronous call of executeNext
AutoSolve ==
  /\ ~disabled.auto
  /\ IF 0 < Len(solutionSteps)
     THEN /\ autoTimeouts < MaxAutoTimeouts
          /\ cube3D' = performCubeMove(cube, solutionSteps[1])
          /\ currentStep' = 1
          /\ UNCHANGED solutionSteps
          /\ updateStepDisplay(disabled)
          /\ autoTimeouts' = autoTimeouts + 1
     ELSE /\ cube3D' = cube
          /\ currentStep' = 0
          /\ UNCHANGED <<solutionSteps, autoTimeouts>>
          /\ updateStepDisplay(disabled)
  /\ rewinds' = 0
  /\ paused' = FALSE
  /\ last' = Op("autoSolve", <<>>, NoMsg)
  /\ UNCHANGED <<cube, selectedColor, solveRequests, scrambleRequests,
                 solveBtnDisabled, snapshot>>

\* executeNext run by a timeout of the auto-solve chain
AutoSolveStep ==
  /\ autoTimeouts > 0
  /\ IF currentStep < Len(solutionSteps)
     THEN /\ cube3D' = performCubeMove(cube3D, solutionSteps[currentStep + 1])
          /\ currentStep' = currentStep + 1
          /\ UNCHANGED <<solutionSteps, autoTimeouts>>
          /\ updateStepDisplay(disabled)
     ELSE /\ autoTimeouts' = autoTimeouts - 1
          /\ UNCHANGED <<cube3D, currentStep, solutionSteps, isPlaying, intervals,
                         playInterval, disabled>>
  /\ UNCHANGED rewinds
  /\ last' = Op("autoSolveStep", currentStep < Len(solutionSteps), NoMsg)
  /\ UNCHANGED <<cube, selectedColor, solveRequests, scrambleRequests,
                 solveBtnDisabled, snapshot, paused>>

\* ------------------------------------------------ the specification

\* The calls the user's clicks make
UserNext ==
  \/ \E color \in PickedColors : SelectColor(color)
  \/ \E sq \in ClickedSquares : ColorSquare(sq[1], sq[2], sq[3])
  \/ ResetCube
  \/ ScrambleCube
  \/ SolveCube
  \/ \E stepNumber \in -1..(Len(solutionSteps) + 1) : GoToStep(stepNumber)
  \/ PreviousStep
  \/ NextStep
  \/ TogglePlayPause
  \/ AutoSolve

\* Timer callbacks and continuations of the async methods
Tick == \E id \in intervals : PlayTick(id)

EventNext ==
  \/ \E apiOk \in BOOLEAN, shuffle \in ShuffleOutcomes : ScrambleResume(apiOk, shuffle)
  \/ \E i \in DOMAIN solveRequests, response \in Responses, draw \in MockDraws :
       SolveResponse(i, response, draw)
  \/ Tick
  \/ AutoSolveStep

Next == UserNext \/ EventNext

Spec == Init /\ [][Next]_vars

\* Playback left alone: while isPlaying the user calls nothing, and the
\* interval of startPlaying keeps firing
PlayNext == (~isPlaying /\ UserNext) \/ EventNext

PlaySpec == Init /\ [][PlayNext]_vars /\ WF_vars(Tick)

\* Auto-solve left alone: while a timeout of its chain is pending the user
\* calls nothing but the editor's handlers, and the timeout fires
EditNext ==
  \/ \E sq \in ClickedSquares : ColorSquare(sq[1], sq[2], sq[3])
  \/ ResetCube
  \/ ScrambleCube

AutoNext ==
  \/ autoTimeouts = 0 /\ UserNext
  \/ autoTimeouts > 0 /\ EditNext
  \/ EventNext

AutoSpec == Init /\ [][AutoNext]_vars /\ WF_vars(AutoSolveStep)

\* ------------------------------------- the move engine on its own

\* Colourings the moves are tried on: each face in the colour colorMap gives
\* it, one colour per row, and one value per column with the first unset.
\* A sticker's face, row and column are told by the three together.
TestColourings ==
  { [f \in Faces |-> [r \in Idx |-> [k \in Idx |->
       CHOOSE color \in Colors : colorMap[color] = f]]],
    [f \in Faces |-> [r \in Idx |-> [k \in Idx |-> <<"white", "red", "blue">>[r + 1]]]],
    [f \in Faces |-> [r \in Idx |-> [k \in Idx |-> <<"empty", "yellow", "green">>[k + 1]]]] }

\* Number of performCubeMove calls in a row
MaxTrail == 4

MovesInit ==
  /\ cube \in TestColourings
  /\ cube3D = cube
  /\ selectedColor = "white"
  /\ solutionSteps = <<>>
  /\ currentStep = 0
  /\ isPlaying = FALSE
  /\ playInterval = NoTimer
  /\ intervals = {}
  /\ autoTimeouts = 0
  /\ solveRequests = <<>>
  /\ scrambleRequests = 0
  /\ solveBtnDisabled = FALSE
  /\ disabled = [prev |-> TRUE, next |-> TRUE, play |-> TRUE, auto |-> TRUE]
  /\ snapshot = cube
  /\ paused = FALSE
  /\ rewinds = 0
  /\ last = Op("performCubeMove", <<>>, NoMsg)

\* performCubeMove(move) called on the playback cube; last.arg lists the
\* tokens of the calls so far.  After the first call the tokens are the
\* first one or its inverse.
PerformCubeMove(move) ==
  /\ Len(last.arg) < MaxTrail
  /\ last.arg # <<>> => move \in {last.arg[1], invertMove(last.arg[1])}
  /\ cube3D' = performCubeMove(cube3D, move)
  /\ last' = Op("performCubeMove", Append(last.arg, move), NoMsg)
  /\ UNCHANGED <<cube, selectedColor, solutionSteps, currentStep, isPlaying,
                 playInterval, intervals, autoTimeouts, solveRequests,
                 scrambleRequests, solveBtnDisabled, snapshot, paused, rewinds,
                 disabled>>

MovesNext == \E move \in Moves : PerformCubeMove(move)

SpecMoves == MovesInit /\ [][MovesNext]_vars


\* ------------------------------ validation and the encoder on their own

\* Squares painted in the colourings validation is tried on
ValidateSquares == { <<"U", 0, 0>>, <<"U", 1, 1>>, <<"R", 0, 0>>, <<"R", 1, 1>> }

\* Colourings of the editor cube validation and the encoder are tried on:
\* the cube with each face in the colour colorMap gives it, the cube with one
\* colour per row pair (9 of each colour, no face uniform), the cube with
\* U and D both white (54 stickers in five colours) and the cube of the
\* constructor, each with two squares set to any sticker value by
\* this.cube[face][row][col] = ... (colorSquare) or left 'empty'
ValidateColourings ==
  LET bases ==
        { [f \in Faces |-> [r \in Idx |-> [k \in Idx |->
             CHOOSE color \in Colors : colorMap[color] = f]]],
          [f \in Faces |-> [r \in Idx |-> [k \in Idx |->
             LET face == CHOOSE n \in 1..6 : FaceKeys[n] = f
             IN  colors[(((face - 1) * 3 + r) % 6) + 1]]]],
          [f \in Faces |-> [r \in Idx |-> [k \in Idx |->
             IF f = "D" THEN "white"
             ELSE CHOOSE color \in Colors : colorMap[color] = f]]],
          EmptyCube }
  IN  { [base EXCEPT ![a[1]][a[2]][a[3]] = x, ![b[1]][b[2]][b[3]] = y] :
          base \in bases, a \in ValidateSquares, b \in ValidateSquares,
          x \in Stickers, y \in Stickers }

ValidateInit ==
  /\ cube \in ValidateColourings
  /\ cube3D = cube
  /\ selectedColor = "white"
  /\ solutionSteps = <<>>
  /\ currentStep = 0
  /\ isPlaying = FALSE
  /\ playInterval = NoTimer
  /\ intervals = {}
  /\ autoTimeouts = 0
  /\ solveRequests = <<>>
  /\ scrambleRequests = 0
  /\ solveBtnDisabled = FALSE
  /\ disabled = [prev |-> TRUE, next |-> TRUE, play |-> TRUE, auto |-> TRUE]
  /\ snapshot = cube
  /\ paused = FALSE
  /\ rewinds = 0
  /\ last = Op("constructor", <<>>, NoMsg)

\* isValidCube() called on the editor cube; last.msg is what it returns
IsValidCube ==
  /\ last' = Op("isValidCube", <<>>, isValidCube(cube))
  /\ UNCHANGED <<cube, cube3D, selectedColor, solutionSteps, currentStep, isPlaying,
                 playInterval, intervals, autoTimeouts, solveRequests,
                 scrambleRequests, solveBtnDisabled, snapshot, paused, rewinds,
                 disabled>>

\* toKociembaString() called on the editor cube; last.msg is the string it
\* returns, or ok = FALSE with the colour it threw on
ToKociembaString ==
  /\ last' = Op("toKociembaString", <<>>, toKociembaString(cube))
  /\ UNCHANGED <<cube, cube3D, selectedColor, solutionSteps, currentStep, isPlaying,
                 playInterval, intervals, autoTimeouts, solveRequests,
                 scrambleRequests, solveBtnDisabled, snapshot, paused, rewinds,
                 disabled>>

ValidateNext == IsValidCube \/ ToKociembaString

SpecValidate == ValidateInit /\ [][ValidateNext]_vars

\* ------------------------------------- the utilities of class CubeSolver

\* generateRandomScramble: const moves, const modifiers
scrambleMoves == <<"R", "L", "U", "D", "F", "B">>
scrambleModifiers == << <<>>, <<"'">>, <<"2">> >>

\* generateRandomScramble with the loop stopped one round early: a faulty
\* variant
generateRandomScrambleShort(length, draws) ==
  [i \in 1..(length - 1) |->
     <<scrambleMoves[draws[i][1] + 1]>> \o scrambleModifiers[draws[i][2] + 1]]

\* generateRandomScramble(length); draws[i] is the pair of
\* Math.floor(Math.random() * 6) and Math.floor(Math.random() * 3) of round i
generateRandomScramble(length, draws) ==
  [i \in 1..length |->
     <<scrambleMoves[draws[i][1] + 1]>> \o scrambleModifiers[draws[i][2] + 1]]

\* isValidMove with the pattern not anchored at the end: a faulty variant
isValidMoveUnanchored(move) ==
  /\ Len(move) >= 1
  /\ move[1] \in {"R", "L", "U", "D", "F", "B"}

\* isValidMove: the test of /^[RLUDFB][\'2]?$/
isValidMove(move) ==
  /\ Len(move) \in {1, 2}
  /\ move[1] \in {"R", "L", "U", "D", "F", "B"}
  /\ Len(move) = 2 => move[2] \in {"'", "2"}

\* Longest string handed to isValidMove and invertMove, and longest scramble
MaxTokenLength == 3
MaxScrambleLength == 2

\* Strings handed to isValidMove and invertMove: every string of up to two
\* characters of TokenAlphabet, and those of two characters followed by up to
\* MaxTokenLength - 2 characters of TokenTail
TokenAlphabet == {"R", "L", "U", "D", "F", "B", "X", "r", "'", "2"}
TokenTail == {"R", "'"}

TokenStrings ==
  UNION {[1..n -> TokenAlphabet] : n \in 0..2}
    \cup UNION {{s \o t : s \in [1..2 -> TokenAlphabet], t \in [1..n -> TokenTail]} :
                 n \in 1..(MaxTokenLength - 2)}

TokensInit ==
  /\ cube = EmptyCube
  /\ cube3D = EmptyCube
  /\ selectedColor = "white"
  /\ solutionSteps = <<>>
  /\ currentStep = 0
  /\ isPlaying = FALSE
  /\ playInterval = NoTimer
  /\ intervals = {}
  /\ autoTimeouts = 0
  /\ solveRequests = <<>>
  /\ scrambleRequests = 0
  /\ solveBtnDisabled = FALSE
  /\ disabled = [prev |-> TRUE, next |-> TRUE, play |-> TRUE, auto |-> TRUE]
  /\ snapshot = EmptyCube
  /\ paused = FALSE
  /\ rewinds = 0
  /\ last = Op("constructor", <<>>, NoMsg)

TokensUnchanged ==
  UNCHANGED <<cube, cube3D, selectedColor, solutionSteps, currentStep, isPlaying,
              playInterval, intervals, autoTimeouts, solveRequests,
              scrambleRequests, solveBtnDisabled, snapshot, paused, rewinds,
              disabled>>

\* CubeSolver.generateRandomScramble(length); last.msg is the list returned
GenerateRandomScramble(length, draws) ==
  /\ last' = Op("generateRandomScramble", [length |-> length, draws |-> draws],
                generateRandomScramble(length, draws))
  /\ TokensUnchanged

\* CubeSolver.isValidMove(move); last.msg is the boolean returned
IsValidMove(move) ==
  /\ last' = Op("isValidMove", move, isValidMove(move))
  /\ TokensUnchanged

\* CubeSolver.invertMove(move); last.msg is the string returned
InvertMove(move) ==
  /\ last' = Op("invertMove", move, invertMove(move))
  /\ TokensUnchanged

TokensNext ==
  \/ \E length \in 0..MaxScrambleLength :
       \E draws \in [1..length -> (0..5) \X (0..2)] :
         GenerateRandomScramble(length, draws)
  \/ \E move \in TokenStrings : IsValidMove(move)
  \/ \E move \in TokenStrings : InvertMove(move)

SpecTokens == TokensInit /\ [][TokensNext]_vars

\* ------------------------------------------ the paint calls on their own

\* Arguments colorSquare is called with: squares of the grid, a col and a
\* row past the grid, and a face the cube does not have
PaintCalls ==
  { <<"U", 0, 0>>, <<"U", 1, 2>>, <<"R", 2, 1>>,
    <<"U", 0, 3>>, <<"U", 3, 0>>, <<"X", 0, 0>> }

PaintInit ==
  /\ cube \in { EmptyCube,
                 [f \in Faces |-> [r \in Idx |-> [k \in Idx |->
                    CHOOSE color \in Colors : colorMap[color] = f]]] }
  /\ cube3D = cube
  /\ selectedColor = "white"
  /\ solutionSteps = <<>>
  /\ currentStep = 0
  /\ isPlaying = FALSE
  /\ playInterval = NoTimer
  /\ intervals = {}
  /\ autoTimeouts = 0
  /\ solveRequests = <<>>
  /\ scrambleRequests = 0
  /\ solveBtnDisabled = FALSE
  /\ disabled = [prev |-> TRUE, next |-> TRUE, play |-> TRUE, auto |-> TRUE]
  /\ snapshot = cube
  /\ paused = FALSE
  /\ rewinds = 0
  /\ last = Op("constructor", <<>>, NoMsg)

PaintNext ==
  \/ \E color \in PickedColors : SelectColor(color)
  \/ \E call \in PaintCalls : ColorSquare(call[1], call[2], call[3])

SpecPaint == PaintInit /\ [][PaintNext]_vars

\* --------------------------- a solution with tokens outside the 18 moves

\* Move lists of the external solver that hold a token performCubeMove has
\* no case for: a letter that names no face, and a wide move
OddSolutions ==
  { << <<"R">>, <<"X">>, <<"U">> >>,
    << <<"R", "w">>, <<"U", "'">> >> }

\* The state after solveCube has sent its request for a complete cube (the
\* one of TestColourings that isValidCube accepts)
OddInit ==
  /\ cube \in {c \in TestColourings : isValidCube(c).valid}
  /\ cube3D = cube
  /\ selectedColor = "white"
  /\ solutionSteps = <<>>
  /\ currentStep = 0
  /\ isPlaying = FALSE
  /\ playInterval = NoTimer
  /\ intervals = {}
  /\ autoTimeouts = 0
  /\ solveRequests = << [cube |-> toKociembaString(cube), edited |-> FALSE] >>
  /\ scrambleRequests = 0
  /\ solveBtnDisabled = TRUE
  /\ disabled = [prev |-> TRUE, next |-> TRUE, play |-> TRUE, auto |-> TRUE]
  /\ snapshot = cube
  /\ paused = FALSE
  /\ rewinds = 0
  /\ last = Op("solveCube", <<>>, NoMsg)

OddNext ==
  \/ \E i \in DOMAIN solveRequests, solution \in OddSolutions, draw \in MockDraws :
       SolveResponse(i, [kind |-> "success", solution |-> solution], draw)
  \/ \E stepNumber \in 0..Len(solutionSteps) : GoToStep(stepNumber)
  \/ PreviousStep
  \/ NextStep
  \/ TogglePlayPause
  \/ Tick
  \/ AutoSolve
  \/ AutoSolveStep

SpecOdd == OddInit /\ [][OddNext]_vars

\* ------------------------------------------------------------ claims

\* C1: applying one of the 18 moves four times in a row (a quarter turn,
\* X or X') or twice in a row (a half turn, X2) leaves the playback cube as
\* it was, whatever the colouring.
C1_RepeatedMoveRestores ==
  \A m \in Moves :
    (/\ last.op = "performCubeMove"
     /\ last.arg = [i \in 1..(IF endsWith(m, "2") THEN 2 ELSE 4) |-> m])
      => cube3D = cube

\* C2: applying a move and then invertMove of it leaves the playback cube
\* as it was, whatever the colouring.
C2_InverseMoveRestores ==
  \A m \in Moves :
    (/\ last.op = "performCubeMove"
     /\ last.arg = <<m, invertMove(m)>>)
      => cube3D = cube

\* C3: a step backward from cursor k > 0 leaves the cursor at k - 1 and the
\* playback cube equal to the snapshot with the first k - 1 moves applied.
C3_StepBackwardReplays ==
  [][(last'.op = "previousStep" /\ currentStep > 0)
       => /\ currentStep' = currentStep - 1
          /\ cube3D' = applyMoves(snapshot', solutionSteps', currentStep - 1)]_vars

\* C4: the response of a solve request that saw an edit of the editor cube
\* while in flight is discarded: it loads nothing, the cursor and the
\* solution stay as the edit left them.
C4_StaleResponseDiscarded ==
  [][(last'.op = "solveResponse" /\ last'.arg.edited)
       => /\ solutionSteps' = <<>>
          /\ currentStep' = 0
          /\ UNCHANGED <<solutionSteps, currentStep, cube3D>>]_vars

\* C5: when the solver is unreachable or answers success = false, the solve
\* ends in an error and loads no move list into the player.
C5_SolverFailureLoadsNothing ==
  [][(last'.op = "solveResponse" /\ last'.arg.response # "success")
       => /\ last'.msg.type = "error"
          /\ UNCHANGED <<solutionSteps, currentStep>>]_vars

\* C6: from a pause until play or auto-solve is next started, no timer
\* callback advances the cursor.
C6_NoAutoStepAfterPause ==
  paused => ~(last.op \in {"playTick", "autoSolveStep"} /\ last.arg)

\* C7: loading a solution leaves cursor = 0, playing = false, the given
\* list as the solution and the playback cube a copy of the editor cube.
C7_LoadResetsPlayer ==
  last.op = "solveResponse"
    => /\ currentStep = 0
       /\ isPlaying = FALSE
       /\ solutionSteps = last.arg.solution
       /\ cube3D = cube

\* C8: goToStep(step) with step in [0, N] sets the cursor to step and the
\* playback cube to the snapshot with the first step moves applied (the
\* snapshot itself for step 0); with step outside [0, N] it changes neither.
C8_JumpReplaysFromSnapshot ==
  [][last'.op = "goToStep"
       => IF last'.arg \in 0..Len(solutionSteps)
          THEN /\ currentStep' = last'.arg
               /\ solutionSteps' = solutionSteps
               /\ cube3D' = applyMoves(snapshot, solutionSteps, last'.arg)
               /\ (last'.arg = 0 => cube3D' = snapshot)
          ELSE UNCHANGED <<currentStep, cube3D, solutionSteps>>]_vars

\* a jump to a step > 1 was made while the playback cube was elsewhere
C8_Witness ==
  /\ last.op = "goToStep"
  /\ last.arg = currentStep
  /\ currentStep > 1
  /\ cube3D # snapshot
  /\ rewinds = 0

\* C9: nextStep with cursor < N applies moves[cursor] to the playback cube
\* and adds 1 to the cursor, with cursor = N it changes nothing; N forward
\* steps right after a load end at cursor = N with the playback cube equal
\* to the N moves applied in order to the snapshot.
C9_StepForwardAppliesMove ==
  [][last'.op = "nextStep"
       => /\ IF currentStep < Len(solutionSteps)
             THEN /\ cube3D' = performCubeMove(cube3D, solutionSteps[currentStep + 1])
                  /\ currentStep' = currentStep + 1
             ELSE UNCHANGED <<cube3D, currentStep>>
          /\ solutionSteps' = solutionSteps
          /\ (last'.arg.run > 0 /\ last'.arg.run = Len(solutionSteps))
               => /\ currentStep' = Len(solutionSteps)
                  /\ cube3D' = applyMoves(snapshot, solutionSteps, Len(solutionSteps))]_vars

\* N >= 3 forward steps were made right after a load
C9_Witness ==
  /\ last.op = "nextStep"
  /\ last.arg.run = Len(solutionSteps)
  /\ last.arg.run >= 3
  /\ currentStep = Len(solutionSteps)
  /\ cube3D # snapshot

\* C10: left alone, play always ends: it reaches cursor = N with playing
\* false and the interval cancelled.
C10_PlayReachesEnd ==
  isPlaying ~> (/\ ~isPlaying
                /\ currentStep = Len(solutionSteps)
                /\ playInterval = NoTimer
                /\ intervals = {})

\* the interval stepped a solution of at least 3 moves to its end
C10_Witness ==
  /\ last.op = "playTick"
  /\ last.arg
  /\ ~isPlaying
  /\ Len(solutionSteps) >= 3
  /\ currentStep = Len(solutionSteps)
  /\ intervals = {}

\* C11: in every reachable state the cursor is an integer from 0 to N, the
\* length of the loaded solution.
C11_CursorInRange ==
  currentStep \in 0..Len(solutionSteps)

\* a timer callback moved the cursor to the end of a solution of 3 moves or
\* more after the cursor had been moved back
C11_Witness ==
  /\ last.op \in {"playTick", "autoSolveStep"}
  /\ last.arg
  /\ rewinds > 0
  /\ Len(solutionSteps) >= 3
  /\ currentStep = Len(solutionSteps)

\* C12: every edit of the editor cube (a painted sticker, a reset, the paint
\* of a scramble) leaves cursor = 0, an empty solution, playing = false, no
\* play timer and the playback cube equal to the edited editor cube.
C12_EditClearsPlayer ==
  last.op \in {"colorSquare", "resetCube", "scrambleResume"}
    => /\ currentStep = 0
       /\ solutionSteps = <<>>
       /\ isPlaying = FALSE
       /\ playInterval = NoTimer
       /\ intervals = {}
       /\ cube3D = cube

\* a sticker was painted while the timeout chain of an auto-solve was
\* still pending
C12_Witness ==
  /\ last.op = "colorSquare"
  /\ autoTimeouts > 0
  /\ cube[last.arg[1]][last.arg[2]][last.arg[3]] = selectedColor
  /\ cube3D = cube

\* C13: no playback operation (step forward or backward, jump, play, pause,
\* timer tick, auto-solve and its callbacks, load of a solution) changes a
\* sticker of the editor cube; the moves write the playback cube only.
C13_PlaybackLeavesEditorCube ==
  [][last'.op \in {"nextStep", "previousStep", "goToStep", "togglePlayPause",
                   "playTick", "autoSolve", "autoSolveStep", "solveResponse"}
       => cube' = cube]_vars

\* a timer callback applied a move: the playback cube differs from the
\* editor cube, which is still the snapshot
C13_Witness ==
  /\ last.op \in {"playTick", "autoSolveStep"}
  /\ last.arg
  /\ currentStep >= 2
  /\ cube3D # cube
  /\ cube = snapshot

\* Number of stickers of the editor cube that hold value x
StickerCount(x) ==
  Cardinality({s \in Faces \X Idx \X Idx : cube[s[1]][s[2]][s[3]] = x})

\* C14: isValidCube returns valid exactly when all 54 stickers are set and
\* each of exactly 6 distinct colours appears exactly 9 times, wherever the
\* colours sit.
C14_ValidIffNineOfEachOfSix ==
  last.op = "isValidCube"
    => (last.msg.valid
          <=> /\ StickerCount("empty") = 0
              /\ Cardinality({x \in Stickers \ {"empty"} : StickerCount(x) > 0}) = 6
              /\ \A x \in Stickers \ {"empty"} : StickerCount(x) \in {0, 9})

\* a cube no physical cube can show (two faces with the same centre colour)
\* was validated and found valid
C14_Witness ==
  /\ last.op = "isValidCube"
  /\ last.msg.valid
  /\ cube["U"][1][1] = cube["R"][1][1]

\* C15: the checks run in the order sticker total, per-colour count, colour
\* variety, and the first failure is the result: a total other than 54 gives
\* the incomplete error with that total, whatever the colour counts; a total
\* of 54 with a colour count other than 9 gives the colour-count error with
\* one such colour and its count.
C15_FirstFailureReported ==
  last.op = "isValidCube"
    => LET total == 54 - StickerCount("empty")
           bad == {x \in Stickers \ {"empty"} : StickerCount(x) \notin {0, 9}}
       IN  /\ total # 54
               => /\ ~last.msg.valid
                  /\ last.msg.kind = "incomplete"
                  /\ last.msg.count = total
           /\ (total = 54 /\ bad # {})
               => /\ ~last.msg.valid
                  /\ last.msg.kind = "count"
                  /\ last.msg.color \in bad
                  /\ last.msg.count = StickerCount(last.msg.color)

\* a cube with 53 stickers set, 10 of them of one colour, was validated
C15_Witness ==
  /\ last.op = "isValidCube"
  /\ StickerCount("empty") = 1
  /\ \E x \in Stickers \ {"empty"} : StickerCount(x) = 10
  /\ last.msg.kind = "incomplete"

\* C16: a solve request is sent only after the editor cube passed validation
\* in the same solveCube call; for a cube that fails validation the
\* validation error is shown, no request is sent, and the solution, the
\* cursor and both cubes are unchanged.
C16_ValidationBeforeRequest ==
  [][/\ Len(solveRequests') > Len(solveRequests)
          => /\ last'.op = "solveCube"
             /\ isValidCube(cube).valid
     /\ (last'.op = "solveCube" /\ ~isValidCube(cube).valid)
          => /\ last'.msg.type = "error"
             /\ last'.msg.text = isValidCube(cube)
             /\ UNCHANGED <<solveRequests, solutionSteps, currentStep, cube, cube3D>>]_vars

\* solveCube was called on a cube of 54 stickers with a wrong colour count
\* while a solution was loaded and the cursor was past 0
C16_Witness ==
  /\ last.op = "solveCube"
  /\ last.msg.type = "error"
  /\ last.msg.text.kind = "count"
  /\ solutionSteps # <<>>
  /\ currentStep > 0
  /\ solveRequests = <<>>

\* The letter of the face each colour is canonically assigned to, and the
\* face order of the solver's input format
CanonicalLetter ==
  [x \in Colors |->
     CASE x = "white" -> "U" [] x = "yellow" -> "D" [] x = "blue" -> "F"
       [] x = "green" -> "B" [] x = "orange" -> "L" [] x = "red" -> "R"]

CanonicalFaceOrder == <<"U", "R", "F", "D", "L", "B">>

\* C17: for a cube that passes validation, toKociembaString returns 54
\* letters: the faces in the order U, R, F, D, L, B, row-major within a face,
\* each sticker as the letter of the face its colour is assigned to, and each
\* of the six letters 9 times.
C17_EncoderLayout ==
  (last.op = "toKociembaString" /\ isValidCube(cube).valid)
    => /\ last.msg.ok
       /\ Len(last.msg.str) = 54
       /\ \A n \in 1..6, r \in Idx, k \in Idx :
            last.msg.str[9 * (n - 1) + 3 * r + k + 1]
              = CanonicalLetter[cube[CanonicalFaceOrder[n]][r][k]]
       /\ \A f \in Faces :
            Cardinality({i \in 1..54 : last.msg.str[i] = f}) = 9

\* a valid cube with no face of one colour was encoded
C17_Witness ==
  /\ last.op = "toKociembaString"
  /\ isValidCube(cube).valid
  /\ last.msg.ok
  /\ \A f \in Faces : cube[f][0][1] # cube[f][1][1]

\* C18: toKociembaString succeeds only on a cube that passes validation; on
\* a cube that fails validation it fails and returns no string.
C18_EncoderRejectsInvalid ==
  (last.op = "toKociembaString" /\ ~isValidCube(cube).valid)
    => ~last.msg.ok

\* C19: for every face X and every colouring, the half turn X2 gives what
\* the quarter turn X gives applied twice, and the turn X' gives what X gives
\* applied three times.
C19_TurnsAgree ==
  \A i \in 1..6 :
    LET X == <<FaceLetters[i]>>
        once == performCubeMove(cube, X)
        twice == performCubeMove(once, X)
    IN  /\ (last.op = "performCubeMove" /\ last.arg = <<X \o <<"2">> >>)
             => cube3D = twice
        /\ (last.op = "performCubeMove" /\ last.arg = <<X \o <<"'">> >>)
             => cube3D = performCubeMove(twice, X)

\* The physical cube: a sticker is the place of its cubie (x to the right
\* face, y to the up face, z to the front face, each -1, 0 or 1) and the
\* outward normal of its face.  Rows and columns are read as in the standard
\* facelet layout: U seen from above with B at the top, D from below with F
\* at the top, and F, R, B, L from outside with U at the top.
RefNormal(f) ==
  CASE f = "U" -> <<0, 1, 0>>  [] f = "D" -> <<0, -1, 0>>
    [] f = "F" -> <<0, 0, 1>>  [] f = "B" -> <<0, 0, -1>>
    [] f = "R" -> <<1, 0, 0>>  [] f = "L" -> <<-1, 0, 0>>

RefPlace(f, r, k) ==
  CASE f = "U" -> <<k - 1, 1, r - 1>>
    [] f = "D" -> <<k - 1, -1, 1 - r>>
    [] f = "F" -> <<k - 1, 1 - r, 1>>
    [] f = "B" -> <<1 - k, 1 - r, -1>>
    [] f = "R" -> <<1, 1 - r, 1 - k>>
    [] f = "L" -> <<-1, 1 - r, k - 1>>

RefDot(a, b) == a[1] * b[1] + a[2] * b[2] + a[3] * b[3]

RefCross(a, b) ==
  <<a[2] * b[3] - a[3] * b[2], a[3] * b[1] - a[1] * b[3], a[1] * b[2] - a[2] * b[1]>>

\* v turned a quarter clockwise (seen from outside) about the axis a
RefRotate(a, v) ==
  [i \in 1..3 |-> a[i] * RefDot(a, v) - RefCross(a, v)[i]]

\* the quarter turn of face f: every sticker of the layer moves with its
\* cubie, the others stay
RefTurn(c, f) ==
  LET a == RefNormal(f)
  IN  [g \in Faces |-> [r \in Idx |-> [k \in Idx |->
        IF RefDot(RefPlace(g, r, k), a) = 1
        THEN LET from == CHOOSE s \in Faces \X Idx \X Idx :
                           /\ RefRotate(a, RefPlace(s[1], s[2], s[3])) = RefPlace(g, r, k)
                           /\ RefRotate(a, RefNormal(s[1])) = RefNormal(g)
             IN  c[from[1]][from[2]][from[3]]
        ELSE c[g][r][k]]]]

RefMove(c, move) ==
  LET once == RefTurn(c, move[1])
      twice == RefTurn(once, move[1])
  IN  IF endsWith(move, "'") THEN RefTurn(twice, move[1])
      ELSE IF endsWith(move, "2") THEN twice
      ELSE once

\* C20: each of the 18 moves permutes the 54 stickers as the physical face
\* turn does in the standard U, R, F, D, L, B facelet layout.
C20_MovesArePhysicalTurns ==
  \A m \in Moves :
    (last.op = "performCubeMove" /\ last.arg = <<m>>)
      => cube3D = RefMove(cube, m)

\* Number of stickers of cube c that hold value x
CountIn(c, x) ==
  Cardinality({s \in Faces \X Idx \X Idx : c[s[1]][s[2]][s[3]] = x})

\* C21: a move never fails and only permutes positions: after any sequence
\* of moves the playback cube holds as many stickers of each colour, and as
\* many unset ones, as before.
C21_MovesKeepStickerCounts ==
  last.op = "performCubeMove"
    => /\ cube3D \in [Faces -> [Idx -> [Idx -> Stickers]]]
       /\ \A x \in Stickers : CountIn(cube3D, x) = CountIn(cube, x)

\* two or more moves were applied to a cube with unset stickers and left it
\* changed
C21_Witness ==
  /\ last.op = "performCubeMove"
  /\ Len(last.arg) >= 2
  /\ CountIn(cube, "empty") > 0
  /\ cube3D # cube

\* C22: no move changes a centre sticker: after any sequence of moves,
\* position (1,1) of each face of the playback cube holds what it held before.
C22_CentresFixed ==
  last.op = "performCubeMove"
    => \A f \in Faces : cube3D[f][1][1] = cube[f][1][1]

\* three or more moves were applied to a cube whose centre differs from the
\* stickers next to it in its row, and left it changed
C22_Witness ==
  /\ last.op = "performCubeMove"
  /\ Len(last.arg) >= 3
  /\ \A f \in Faces : cube[f][1][1] \notin {cube[f][1][0], cube[f][1][2]}
  /\ cube3D # cube

\* The 18 legal move tokens: a face letter, then nothing, ' or 2
LegalTokens ==
  {<<f>> \o m : f \in {"U", "D", "F", "B", "L", "R"},
                m \in {<<>>, <<"'">>, <<"2">>}}

\* C23: generateRandomScramble(n) returns exactly n tokens, each one of the
\* 18 legal tokens and accepted by isValidMove, whatever the random draws;
\* two tokens of the same face in a row are allowed.
C23_ScrambleOfLegalTokens ==
  last.op = "generateRandomScramble"
    => /\ Len(last.msg) = last.arg.length
       /\ \A i \in 1..Len(last.msg) :
            /\ last.msg[i] \in LegalTokens
            /\ isValidMove(last.msg[i])

\* a scramble of MaxScrambleLength tokens with the same face twice in a row
\* and two different modifiers
C23_Witness ==
  /\ last.op = "generateRandomScramble"
  /\ last.arg.length = MaxScrambleLength
  /\ Len(last.msg) = MaxScrambleLength
  /\ last.msg[1][1] = last.msg[2][1]
  /\ last.msg[1] # last.msg[2]

\* C25: invertMove maps each quarter-turn token X to X', each X' to X and
\* each half-turn token X2 to itself; on the 18 legal tokens its result is a
\* legal token and invertMove(invertMove(m)) = m.
C25_InvertMoveInvolution ==
  (last.op = "invertMove" /\ last.arg \in LegalTokens)
    => /\ \A f \in {"U", "D", "F", "B", "L", "R"} :
            /\ last.arg = <<f>> => last.msg = <<f, "'">>
            /\ last.arg = <<f, "'">> => last.msg = <<f>>
            /\ last.arg = <<f, "2">> => last.msg = <<f, "2">>
       /\ last.msg \in LegalTokens
       /\ invertMove(last.msg) = last.arg

\* invertMove was applied to a counter-clockwise token
C25_Witness ==
  /\ last.op = "invertMove"
  /\ last.arg = <<"B", "'">>
  /\ last.msg = <<"B">>

\* C26: isValidMove accepts exactly the 18 tokens made of a face letter of
\* U, D, F, B, L, R followed by nothing, by ' or by 2, and rejects every
\* other string; these are the tokens performCubeMove has a case for.
C26_RecogniserAcceptsLegalTokens ==
  last.op = "isValidMove"
    => /\ last.msg <=> last.arg \in LegalTokens
       /\ last.msg <=> last.arg \in Moves

\* a legal token followed by one more modifier was rejected
C26_Witness ==
  /\ last.op = "isValidMove"
  /\ last.arg = <<"R", "2", "'">>
  /\ last.msg = FALSE

\* C24: scrambleCube, from any editor state and for every outcome of the
\* shuffle, leaves the editor cube with all 54 stickers set and 9 of each of
\* the 6 colours, so that validation succeeds right after it.
C24_ScrambleIsBalanced ==
  last.op = "scrambleResume"
    => /\ CountIn(cube, "empty") = 0
       /\ \A x \in Colors : CountIn(cube, x) = 9
       /\ isValidCube(cube).valid

\* the scramble painted the cube although the fetch of /api/scramble failed
C24_Witness ==
  /\ last.op = "scrambleResume"
  /\ last.arg = FALSE
  /\ cube["F"][1][1] = "red"
  /\ cube3D = cube

\* C27: resetCube, from any state, leaves all 54 stickers of the editor cube
\* and all 54 stickers of the playback cube unset.
C27_ResetUnsetsBothCubes ==
  last.op = "resetCube"
    => /\ \A f \in Faces, r \in Idx, k \in Idx : cube[f][r][k] = "empty"
       /\ \A f \in Faces, r \in Idx, k \in Idx : cube3D[f][r][k] = "empty"

\* the cube was reset while the timeout chain of an auto-solve was pending
C27_Witness ==
  /\ last.op = "resetCube"
  /\ autoTimeouts > 0
  /\ cube3D = EmptyCube

\* C30: at most one play timer is ever scheduled: isPlaying is true exactly
\* when an interval is scheduled, that interval is this.playInterval, and
\* no earlier interval is left running.
C30_OnePlayTimer ==
  /\ isPlaying <=> intervals # {}
  /\ Cardinality(intervals) <= 1
  /\ intervals = IF playInterval = NoTimer THEN {} ELSE {playInterval}

\* play was started with the cursor past the first move
C30_Witness ==
  /\ last.op = "togglePlayPause"
  /\ last.arg = FALSE
  /\ isPlaying
  /\ currentStep > 0
  /\ Cardinality(intervals) = 1

\* C28: colorSquare at a position of the grid always succeeds, with no
\* validation: it sets that sticker of the editor cube to the selected colour
\* and leaves the other 53 unchanged, whatever colouring results.
C28_PaintSetsOneSticker ==
  [][(last'.op = "colorSquare" /\ last'.arg \in Faces \X Idx \X Idx)
       => /\ last'.msg = NoMsg
          /\ cube'[last'.arg[1]][last'.arg[2]][last'.arg[3]] = selectedColor
          /\ \A s \in Faces \X Idx \X Idx :
               s # last'.arg => cube'[s[1]][s[2]][s[3]] = cube[s[1]][s[2]][s[3]]]_vars

\* a sticker of a complete cube was painted over in the colour of another
\* face and a second sticker after it: the counts are 10 and 8, or worse
C28_Witness ==
  /\ last.op = "colorSquare"
  /\ last.msg = NoMsg
  /\ cube[last.arg[1]][last.arg[2]][last.arg[3]] = selectedColor
  /\ CountIn(cube, "empty") = 0
  /\ CountIn(cube, "red") > 9
  /\ cube["U"][0][0] = "red"
  /\ last.arg # <<"U", 0, 0>>

\* C29: colorSquare with a row or a col outside 0..2, or with an unknown
\* face, fails with an error and leaves the editor cube unchanged: every face
\* stays a grid of 3 rows of 3 stickers.
C29_PaintOutOfRangeRejected ==
  [][(last'.op = "colorSquare" /\ last'.arg \notin Faces \X Idx \X Idx)
       => /\ last'.msg.type \in {"error", "throw"}
          /\ cube' = cube
          /\ \A f \in Faces :
               /\ DOMAIN cube'[f] = Idx
               /\ \A r \in Idx : DOMAIN cube'[f][r] = Idx]_vars

\* C31: in every reachable state the playback cube is the editor cube with
\* the first currentStep moves of the loaded solution applied to it (and the
\* editor cube itself when the cursor is 0), whatever sequence of loads,
\* edits, steps, jumps, play, pause, ticks and auto-solve led there.
C31_PlaybackCubeFollowsCursor ==
  cube3D = applyMoves(cube, solutionSteps, currentStep)

\* C32: starting play while the cursor is at the end of a loaded solution
\* replays it from the beginning: the cursor restarts at 0 and the playback
\* cube is reset to the snapshot, so the second run ends with the same cube
\* as the first.
C32_RestartResetsPlaybackCube ==
  [][(/\ last'.op = "togglePlayPause"
      /\ ~isPlaying
      /\ Len(solutionSteps) > 0
      /\ currentStep >= Len(solutionSteps))
       => /\ isPlaying'
          /\ currentStep' = 0
          /\ cube3D' = snapshot]_vars

C34_VarietyNeverReported ==
  last.op = "isValidCube"
    => /\ last.msg.kind \in {"incomplete", "count", "ok"}
       /\ last.msg.valid <=> last.msg.kind = "ok"

\* validation was run on a complete cube in five colours and reported a count
C34_Witness ==
  /\ last.op = "isValidCube"
  /\ CountIn(cube, "empty") = 0
  /\ Cardinality({x \in Colors : CountIn(cube, x) > 0}) = 5
  /\ last.msg.kind = "count"

\* C35: when the loaded solution holds a token that is none of the 18 moves,
\* a step forward over it (the next button or a tick of play) leaves the
\* playback cube unchanged and still advances the cursor by 1, with no error
\* shown; the other tokens of the list are applied as the moves they name.
C35_UnknownTokenSteppedOver ==
  [][(last'.op \in {"nextStep", "playTick"} /\ currentStep < Len(solutionSteps))
       => LET token == solutionSteps[currentStep + 1]
          IN  /\ currentStep' = currentStep + 1
              /\ last'.msg = NoMsg
              /\ solutionSteps' = solutionSteps
              /\ token \notin Moves => cube3D' = cube3D
              /\ token \in Moves => /\ cube3D' = RefMove(cube3D, token)
                                    /\ cube3D' # cube3D]_vars

\* the next button stepped over the token X that follows R
C35_Witness ==
  /\ last.op = "nextStep"
  /\ last.arg.moved
  /\ currentStep = 2
  /\ solutionSteps[2] = <<"X">>
  /\ cube3D = rotateR(snapshot)
  /\ cube3D # snapshot

\* The stickers a turn of face f may move: the 8 of f around its centre and
\* the 12 of the four neighbouring faces that border f
TurnedStickers(f) ==
  {s \in Faces \X Idx \X Idx :
     RefDot(RefPlace(s[1], s[2], s[3]), RefNormal(f)) = 1} \ {<<f, 1, 1>>}

\* C36: a turn of face X (X, X' or X2) changes only the 8 stickers of X
\* around its centre and the 12 stickers of the four neighbouring faces that
\* border X; the centre of X, the whole opposite face and the other 6
\* stickers of each neighbour are left as they were.
C36_TurnTouchesOneLayer ==
  \A m \in Moves :
    (last.op = "performCubeMove" /\ last.arg = <<m>>)
      => /\ Cardinality({s \in TurnedStickers(m[1]) : s[1] = m[1]}) = 8
         /\ \A g \in Faces \ {m[1]} :
              Cardinality({s \in TurnedStickers(m[1]) : s[1] = g}) \in {0, 3}
         /\ Cardinality(TurnedStickers(m[1])) = 20
         /\ \A s \in (Faces \X Idx \X Idx) \ TurnedStickers(m[1]) :
              cube3D[s[1]][s[2]][s[3]] = cube[s[1]][s[2]][s[3]]

\* B' was applied to a cube with no uniform face and changed stickers, all
\* of them in the layer of B
C36_Witness ==
  /\ last.op = "performCubeMove"
  /\ last.arg = << <<"B", "'">> >>
  /\ \E r \in Idx : cube["U"][r][0] # cube["U"][r][2]
  /\ \E s \in TurnedStickers("B") : cube3D[s[1]][s[2]][s[3]] # cube[s[1]][s[2]][s[3]]
  /\ cube3D["F"] = cube["F"]

\* C37: after auto-solve is started on a loaded solution of length N, with
\* no other call of the player while its chain of timeouts is pending, the
\* player restarts from cursor 0 and the snapshot (the first move is applied
\* in the same call), every later callback applies the move at the cursor,
\* and the chain eventually ends with the cursor at N, the playback cube the
\* snapshot with all N moves applied, and no timeout left.  When the cube is
\* edited while the chain is pending, the pending callback applies no move.
C37_AutoSolveRunsToTheEnd ==
  /\ [][/\ last'.op = "autoSolve"
           => /\ currentStep' = (IF Len(solutionSteps) > 0 THEN 1 ELSE 0)
              /\ cube3D' = applyMoves(snapshot, solutionSteps, currentStep')
        /\ (last'.op = "autoSolveStep" /\ last'.arg)
           => /\ currentStep' = currentStep + 1
              /\ cube3D' = performCubeMove(cube3D, solutionSteps[currentStep'])
        /\ (last'.op = "autoSolveStep"
              /\ last.op \in {"colorSquare", "resetCube", "scrambleResume"})
           => /\ ~last'.arg
              /\ UNCHANGED <<cube3D, currentStep>>]_vars
  /\ (autoTimeouts > 0)
       ~> (/\ autoTimeouts = 0
           /\ last.op = "autoSolveStep"
           /\ currentStep = Len(solutionSteps)
           /\ cube3D = applyMoves(snapshot, solutionSteps, Len(solutionSteps)))

\* the chain ran the three moves of the solution and its last callback
\* found the cursor at the end
C37_Witness ==
  /\ last.op = "autoSolveStep"
  /\ ~last.arg
  /\ autoTimeouts = 0
  /\ Len(solutionSteps) = 3
  /\ currentStep = 3
  /\ cube3D = applyMoves(snapshot, solutionSteps, 3)
  /\ cube3D # snapshot

\* C38: at most one solve request is in flight at any time: solve-btn is
\* disabled from the moment a request is issued until its outcome has been
\* handled, and enabled again after that, so the response handled is that
\* of the only pending request and no newer request's solution is there to
\* be overwritten.
C38_OneSolveRequestInFlight ==
  /\ Len(solveRequests) <= 1
  /\ solveBtnDisabled <=> solveRequests # <<>>
  /\ last.op = "solveResponse" => (solveRequests = <<>> /\ ~solveBtnDisabled)

\* a second request is in flight while the solution of the first is loaded
C38_Witness ==
  /\ last.op = "solveCube"
  /\ last.msg = NoMsg
  /\ Len(solveRequests) = 1
  /\ solveBtnDisabled
  /\ solutionSteps # <<>>
====
